---- MODULE Spec2Model ----
(***************************************************************************)
(* VideoGen: the rule-based script splitter (videogen/script_utils.py),    *)
(* the project assembler (videogen/project.py) and the pipeline driver     *)
(* (videogen/cli.py), as state machines.                                   *)
(*                                                                         *)
(* A Python str is a sequence of one-character strings, so that strip,     *)
(* find, slicing, re.split, re.sub, re.findall, split and join are         *)
(* computed character by character as the code computes them.              *)
(***************************************************************************)
EXTENDS Integers, Sequences, FiniteSets, TLC

VARIABLES
    script_text,    \* the text given to build_plans_from_script (the script file's content)
    seg_pc,         \* the segmenter's call: "call", "done" ("idle" in the pipeline)
    seg_result,     \* what build_plans_from_script returned
    args,           \* the parsed command line
    pc,             \* the position of main / build_project_from_plans
    plans,          \* the segment plans
    index,          \* the loop index of build_project_from_plans
    duration,       \* the duration probed for the current plan
    speech_paths,   \* the three lists the loop collects
    video_paths,
    durations,
    segments,       \* what create_project_segments returned
    calls           \* the collaborator calls made so far, with their outcomes

seg_vars == <<script_text, seg_pc, seg_result>>

pipe_vars ==
    <<args, pc, plans, index, duration, speech_paths, video_paths, durations, segments, calls>>

vars == <<seg_vars, pipe_vars>>

(***************************************************************************)
(* Python string primitives                                                *)
(***************************************************************************)

\* str.strip() and the regex class \s: the whitespace characters.
Whitespace == {" ", "\n", "\t"}

UpperLetters ==
    <<"A", "B", "C", "D", "E", "F", "G", "H", "I", "J", "K", "L", "M",
      "N", "O", "P", "Q", "R", "S", "T", "U", "V", "W", "X", "Y", "Z", "Ç", "Ö", "Ü">>

LowerLetters ==
    <<"a", "b", "c", "d", "e", "f", "g", "h", "i", "j", "k", "l", "m",
      "n", "o", "p", "q", "r", "s", "t", "u", "v", "w", "x", "y", "z", "ç", "ö", "ü">>

DigitChars == <<"0", "1", "2", "3", "4", "5", "6", "7", "8", "9">>

Range(f) == {f[i] : i \in DOMAIN f}

SetMin(S) == CHOOSE x \in S : \A y \in S : x <= y

SetMax(S) == CHOOSE x \in S : \A y \in S : x >= y

\* s[:n] for n >= 0
SliceTo(s, n) == SubSeq(s, 1, IF n < Len(s) THEN n ELSE Len(s))

\* s[n:] for n >= 0
SliceFrom(s, n) == SubSeq(s, n + 1, Len(s))

\* str.strip()
Strip(s) ==
    LET keep == {i \in 1..Len(s) : s[i] \notin Whitespace}
    IN  IF keep = {} THEN <<>> ELSE SubSeq(s, SetMin(keep), SetMax(keep))

\* str.replace(old, new) for one-character old and new
Replace(s, old, new) == [i \in 1..Len(s) |-> IF s[i] = old THEN new ELSE s[i]]

\* str.find(ch): the 0-based index of the first occurrence, -1 when there is none
Find(s, ch) ==
    LET hits == {i \in 1..Len(s) : s[i] = ch}
    IN  IF hits = {} THEN -1 ELSE SetMin(hits) - 1

\* the length of the longest prefix of s made of characters of the set cls
RECURSIVE PrefixRun(_, _)
PrefixRun(s, cls) ==
    IF s = <<>> \/ Head(s) \notin cls THEN 0 ELSE 1 + PrefixRun(Tail(s), cls)

\* re.sub(r"\s+", " ", s)
RECURSIVE ReSubSpaces(_)
ReSubSpaces(s) ==
    IF s = <<>> THEN <<>>
    ELSE IF Head(s) \in Whitespace
         THEN <<" ">> \o ReSubSpaces(SliceFrom(s, PrefixRun(s, Whitespace)))
         ELSE <<Head(s)>> \o ReSubSpaces(Tail(s))

\* re.split(r"\n{2,}", s): cur is the piece being built
RECURSIVE ReSplitNewlines(_, _)
ReSplitNewlines(s, cur) ==
    IF s = <<>> THEN <<cur>>
    ELSE LET run == PrefixRun(s, {"\n"})
         IN  IF run >= 2
             THEN <<cur>> \o ReSplitNewlines(SliceFrom(s, run), <<>>)
             ELSE ReSplitNewlines(Tail(s), Append(cur, Head(s)))

\* str.split(): the maximal runs of non-whitespace characters
RECURSIVE SplitWords(_)
SplitWords(s) ==
    IF s = <<>> THEN <<>>
    ELSE IF Head(s) \in Whitespace THEN SplitWords(Tail(s))
    ELSE LET n == PrefixRun(s, Range(s) \ Whitespace)
         IN  <<SliceTo(s, n)>> \o SplitWords(SliceFrom(s, n))

\* sep.join(words)
RECURSIVE Join(_, _)
Join(words, sep) ==
    IF words = <<>> THEN <<>>
    ELSE IF Len(words) = 1 THEN words[1]
    ELSE words[1] \o sep \o Join(Tail(words), sep)

\* str.lower(), character by character
LowerChar(c) ==
    IF \E i \in DOMAIN UpperLetters : UpperLetters[i] = c
    THEN LowerLetters[CHOOSE i \in DOMAIN UpperLetters : UpperLetters[i] = c]
    ELSE c

Lower(s) == [i \in 1..Len(s) |-> LowerChar(s[i])]

\* str(n) for n >= 0, as the f-string formats it
RECURSIVE IntToStr(_)
IntToStr(n) ==
    IF n < 10 THEN <<DigitChars[n + 1]>>
    ELSE IntToStr(n \div 10) \o <<DigitChars[(n % 10) + 1]>>

(***************************************************************************)
(* videogen/script_utils.py                                                *)
(***************************************************************************)

_STOPWORDS == {
    <<"a", "n", "d">>, <<"t", "h", "e">>, <<"f", "o", "r">>, <<"w", "i", "t", "h">>,
    <<"t", "h", "a", "t">>, <<"f", "r", "o", "m">>, <<"t", "h", "i", "s">>,
    <<"h", "a", "v", "e">>, <<"y", "o", "u", "r">>, <<"i", "n", "t", "o">>,
    <<"a", "b", "o", "u", "t">>, <<"w", "h", "e", "n">>, <<"w", "h", "e", "r", "e">>,
    <<"w", "h", "i", "l", "e">>, <<"t", "h", "e", "n">>, <<"o", "v", "e", "r">>,
    <<"s", "u", "c", "h">>, <<"v", "e", "r", "y">>, <<"j", "u", "s", "t">>,
    <<"b", "e", "c", "a", "u", "s", "e">>, <<"h", "o", "w", "e", "v", "e", "r">>,
    <<"a", "l", "s", "o">>, <<"l", "i", "k", "e">>, <<"b", "u", "t">>, <<"a", "r", "e">>,
    <<"w", "a", "s">>, <<"w", "e", "r", "e">>, <<"y", "o", "u">>, <<"t", "h", "e", "y">>,
    <<"t", "h", "e", "m">>, <<"o", "u", "r">>, <<"t", "h", "e", "i", "r">>,
    <<"n", "o", "t">>, <<"b", "i", "r">>, <<"i", "l", "e">>, <<"a", "m", "a">>,
    <<"g", "i", "b", "i">>, <<"v", "e">>, <<"d", "e">>, <<"d", "a">>, <<"b", "u">>,
    <<"o", "l", "a", "n">>, <<"k", "a", "d", "a", "r">>, <<"ç", "o", "k">>,
    <<"d", "a", "h", "a">>, <<"i", "ç", "i", "n">>, <<"i", "c", "i", "n">>,
    <<"h", "e", "n", "ü", "z">>
}

\* the characters the class [\wçğıöşüÇĞİÖŞÜ] matches
WordChars == Range(UpperLetters) \cup Range(LowerLetters) \cup Range(DigitChars) \cup {"_"}

\* the delimiters in the order the loop tries them
Delimiters == <<".", "!", "?">>

SummaryLimit == 200

KeywordLimit == 5

TitleWords == 6

\* the sentence trimmed and its newlines replaced, its whitespace runs kept
_clean_sentence_NoCollapse(text) == Replace(Strip(text), "\n", " ")

_clean_sentence(text) == ReSubSpaces(Replace(Strip(text), "\n", " "))

_extract_summary(text) ==
    LET cleaned == _clean_sentence(text)
        found == {k \in DOMAIN Delimiters : Find(cleaned, Delimiters[k]) # -1}
    IN  IF found = {} THEN SliceTo(cleaned, SummaryLimit)
        ELSE SliceTo(cleaned, Find(cleaned, Delimiters[SetMin(found)]) + 1)

\* re.findall(r"[\w...]+", s)
RECURSIVE FindAllWords(_)
FindAllWords(s) ==
    IF s = <<>> THEN <<>>
    ELSE IF Head(s) \notin WordChars THEN FindAllWords(Tail(s))
    ELSE LET n == PrefixRun(s, WordChars)
         IN  <<SliceTo(s, n)>> \o FindAllWords(SliceFrom(s, n))

\* the filter without its stopword test
KeepCandidate_LengthOnly(word) == Len(word) > 2

KeepCandidate(word) == Len(word) > 2 /\ word \notin _STOPWORDS

_keyword_candidates(text) == SelectSeq(FindAllWords(Lower(text)), KeepCandidate)

\* Counter(candidates): the distinct words in first-insertion order ...
RECURSIVE CounterKeys(_, _)
CounterKeys(candidates, seen) ==
    IF candidates = <<>> THEN seen
    ELSE IF \E i \in DOMAIN seen : seen[i] = Head(candidates)
         THEN CounterKeys(Tail(candidates), seen)
         ELSE CounterKeys(Tail(candidates), Append(seen, Head(candidates)))

\* ... and each word's count
CounterCount(candidates, word) ==
    Cardinality({i \in DOMAIN candidates : candidates[i] = word})

\* an unstable order: a later word passes the earlier words of equal count
CountBefore_OrEqual(a, b) == a >= b

\* whether count a sorts before count b in most_common
CountBefore(a, b) == a > b

\* insertion of key into the sorted list, after the keys it does not sort before
RECURSIVE InsertByCount(_, _, _)
InsertByCount(sorted, key, candidates) ==
    IF sorted = <<>> THEN <<key>>
    ELSE IF CountBefore(CounterCount(candidates, key), CounterCount(candidates, Head(sorted)))
         THEN <<key>> \o sorted
         ELSE <<Head(sorted)>> \o InsertByCount(Tail(sorted), key, candidates)

\* sorted(counter.items(), key=count, reverse=True): stable, so equal counts keep
\* their insertion order
RECURSIVE SortByCount(_, _, _)
SortByCount(keys, sorted, candidates) ==
    IF keys = <<>> THEN sorted
    ELSE SortByCount(Tail(keys), InsertByCount(sorted, Head(keys), candidates), candidates)

\* Counter.most_common(limit)
MostCommon(candidates, limit) ==
    SliceTo(SortByCount(CounterKeys(candidates, <<>>), <<>>, candidates), limit)

_extract_keywords(text) ==
    LET candidates == _keyword_candidates(text)
    IN  IF candidates = <<>> THEN <<>> ELSE MostCommon(candidates, KeywordLimit)

SegmentLabel(fallback_index) ==
    <<"S", "e", "g", "m", "e", "n", "t", " ">> \o IntToStr(fallback_index)

\* the title without the cut to its first words
_title_from_text_Uncut(text, fallback_index) ==
    LET cleaned == _clean_sentence(text)
    IN  IF cleaned = <<>> THEN SegmentLabel(fallback_index) ELSE cleaned

_title_from_text(text, fallback_index) ==
    LET cleaned == _clean_sentence(text)
        snippet == Strip(Join(SliceTo(SplitWords(cleaned), TitleWords), <<" ">>))
    IN  IF cleaned = <<>> THEN SegmentLabel(fallback_index)
        ELSE IF snippet # <<>> THEN snippet ELSE SegmentLabel(fallback_index)

\* the filter "if chunk" in place of "if chunk.strip()"
KeepChunk_Untrimmed(piece) == piece # <<>>

KeepChunk(piece) == Strip(piece) # <<>>

\* the chunks without the filter
ScriptChunks_Unfiltered(text) ==
    LET pieces == ReSplitNewlines(text, <<>>)
    IN  [i \in 1..Len(pieces) |-> Strip(pieces[i])]

\* chunks = [chunk.strip() for chunk in re.split(...) if chunk.strip()]
ScriptChunks(text) ==
    LET pieces == SelectSeq(ReSplitNewlines(text, <<>>), KeepChunk)
    IN  [i \in 1..Len(pieces) |-> Strip(pieces[i])]

SegmentPlan(title, summary, script, keywords) ==
    [title |-> title, summary |-> summary, script |-> script, keywords |-> keywords]

build_plans_from_script(text) ==
    LET chunks == ScriptChunks(text)
    IN  [number \in 1..Len(chunks) |->
            LET summary == _extract_summary(chunks[number])
            IN  SegmentPlan(_title_from_text(summary, number), summary,
                            _clean_sentence(chunks[number]),
                            _extract_keywords(chunks[number]))]

(***************************************************************************)
(* videogen/openai_utils.py                                                *)
(***************************************************************************)

\* dict.get(k, default); a dict is a function from its keys
DictGet(data, k, default) == IF k \in DOMAIN data THEN data[k] ELSE default

EmptyDict == [k \in {} |-> <<>>]

Unnamed == <<"U", "n", "n", "a", "m", "e", "d">>

from_dict(data) ==
    SegmentPlan(DictGet(data, "title", Unnamed), DictGet(data, "summary", <<>>),
                DictGet(data, "script", <<>>), DictGet(data, "keywords", <<>>))

\* generate_script_outline from the model's response on: response.json says
\* whether json.loads accepts the text, response.parsed is what it returns
generate_script_outline(response) ==
    IF ~response.json THEN [error |-> "ValueError", plans |-> <<>>]
    ELSE LET items == DictGet(response.parsed, "segments", <<>>)
             found == [i \in 1..Len(items) |-> from_dict(items[i])]
         IN  IF found = <<>> THEN [error |-> "ValueError", plans |-> <<>>]
             ELSE [error |-> "", plans |-> found]

(***************************************************************************)
(* videogen/project.py                                                     *)
(***************************************************************************)

ProjectSegment(i, plan, speech_path, video_path, seconds) ==
    [index |-> i, title |-> plan.title, summary |-> plan.summary,
     script |-> plan.script, keywords |-> plan.keywords,
     speech_path |-> speech_path, video_path |-> video_path, duration |-> seconds]

\* the loop runs over plans and indexes the three other lists: a list shorter
\* than plans raises IndexError, a longer one is read only up to len(plans)
create_project_segments(ps, speeches, videos, secs) ==
    IF \E i \in 1..Len(ps) : i > Len(speeches) \/ i > Len(videos) \/ i > Len(secs)
    THEN [error |-> "IndexError", segments |-> <<>>]
    ELSE [error |-> "",
          segments |-> [i \in 1..Len(ps) |->
                           ProjectSegment(i - 1, ps[i], speeches[i], videos[i], secs[i])]]

(***************************************************************************)
(* videogen/pexels.py                                                      *)
(***************************************************************************)

\* Optional[Path]
NoPath == [some |-> FALSE, path |-> <<>>]

SomePath(path) == [some |-> TRUE, path |-> path]

\* download_video: the file name made from the query
VideoFile(query) ==
    LET safe_name == Join(SplitWords(Lower(query)), <<"_">>)
    IN  (IF safe_name = <<>> THEN <<"s", "e", "g", "m", "e", "n", "t">> ELSE safe_name)
            \o <<".", "m", "p", "4">>

\* search_and_download: found is "ok" (a video was found and downloaded) or
\* "none" (the search found no video)
search_and_download(query, found) ==
    IF found = "none" THEN NoPath ELSE SomePath(VideoFile(query))

(***************************************************************************)
(* videogen/cli.py                                                         *)
(***************************************************************************)

\* f"{index:02d}"
Format02d(n) == IF n < 10 THEN <<"0">> \o IntToStr(n) ELSE IntToStr(n)

\* speech_dir / f"segment_{index:02d}.mp3"
SpeechFile(i) ==
    <<"s", "e", "g", "m", "e", "n", "t", "_">> \o Format02d(i) \o <<".", "m", "p", "3">>

\* the query without its fallback to the title
FootageQuery_NoFallback(plan) == Join(plan.keywords, <<" ">>)

\* query = " ".join(plan.keywords) or plan.title
FootageQuery(plan) ==
    LET joined == Join(plan.keywords, <<" ">>)
    IN  IF joined # <<>> THEN joined ELSE plan.title

\* a failed call that the run survives
AfterCall_Swallowed(result, next_pc) == next_pc

\* neither main nor build_project_from_plans catches an exception: a call that
\* raises ends the run, a call that returns is followed by the next statement
AfterCall(result, next_pc) == IF result = "raised" THEN "raised" ELSE next_pc

Call(op, i, arg, result) == [op |-> op, index |-> i, arg |-> arg, result |-> result]

Outcomes == {"ok", "raised"}

ProjectFile == <<"p", "r", "o", "j", "e", "c", "t", ".", "j", "s", "o", "n">>

RenderFile == <<"p", "r", "o", "j", "e", "c", "t", ".", "m", "p", "4">>

\* the upload tried before the render
AfterSave_UploadFirst ==
    IF args.upload THEN "upload" ELSE IF args.render THEN "render" ELSE "returned"

\* what follows project.save: "if render", then "if upload", then the return
AfterSave == IF args.render THEN "render" ELSE IF args.upload THEN "upload" ELSE "returned"

AfterRender == IF args.upload THEN "upload" ELSE "returned"

\* main: the two parser.error checks
ParseArgs ==
    /\ pc = "start"
    /\ pc' = IF ~args.urls /\ ~args.script_file THEN "exit"
             ELSE IF args.urls /\ ~args.prompt THEN "exit"
             ELSE "config"
    /\ UNCHANGED <<seg_vars, args, plans, index, duration, speech_paths, video_paths,
                   durations, segments, calls>>

\* main: VideoGenConfig.from_environment() and OpenAIWorkflow(...)
LoadConfig ==
    /\ pc = "config"
    /\ \E result \in Outcomes : pc' = AfterCall(result, "plan")
    /\ UNCHANGED <<seg_vars, args, plans, index, duration, speech_paths, video_paths,
                   durations, segments, calls>>

\* main: the script file is read and split; no plans is a SystemExit
PlanFromScript ==
    /\ pc = "plan"
    /\ args.script_file
    /\ \E read \in Outcomes :
         LET found == build_plans_from_script(script_text)
         IN  /\ plans' = IF read = "ok" THEN found ELSE plans
             /\ pc' = AfterCall(read, IF found = <<>> THEN "exit" ELSE "speech")
    /\ UNCHANGED <<seg_vars, args, index, duration, speech_paths, video_paths,
                   durations, segments, calls>>

MaxSegments == 2

\* the segment objects a response may hold: complete, without keywords, with an
\* empty keyword list, with one empty keyword, without a script, with an empty
\* script, without a title, and the empty object
ResponseItems ==
    LET title == <<"I", "n", "t", "r", "o">>
        summary == <<"H", "i", ".">>
        script == <<"H", "i", ".", " ", "B", "y", "e">>
    IN  { [title |-> title, summary |-> summary, script |-> script,
           keywords |-> <<<<"c", "a", "t">>, <<"d", "o", "g">>>>],
          [title |-> title, summary |-> summary, script |-> script],
          [title |-> title, summary |-> summary, script |-> script, keywords |-> <<>>],
          [title |-> title, summary |-> summary, script |-> script, keywords |-> <<<<>>>>],
          [title |-> title, summary |-> summary, keywords |-> <<<<"c", "a", "t">>>>],
          [title |-> title, summary |-> summary, script |-> <<>>,
           keywords |-> <<<<"c", "a", "t">>>>],
          [summary |-> summary, script |-> script, keywords |-> <<>>],
          EmptyDict }

\* what the model may answer: text that is not JSON, an object without
\* "segments", an object with up to MaxSegments segment objects
Responses ==
    {[json |-> FALSE, parsed |-> EmptyDict], [json |-> TRUE, parsed |-> EmptyDict]}
        \cup {[json |-> TRUE, parsed |-> [segments |-> items]] :
                 items \in UNION {[1..n -> ResponseItems] : n \in 0..MaxSegments}}

\* main: the transcripts are fetched and the model is asked for the plans
PlanFromLLM ==
    /\ pc = "plan"
    /\ ~args.script_file
    /\ \E fetched \in Outcomes :
         \/ /\ fetched = "raised"
            /\ pc' = AfterCall(fetched, "speech")
            /\ UNCHANGED plans
         \/ /\ fetched = "ok"
            /\ \E response \in Responses :
                 LET outline == generate_script_outline(response)
                 IN  /\ plans' = outline.plans
                     /\ pc' = AfterCall(IF outline.error # "" THEN "raised" ELSE "ok",
                                        IF outline.plans = <<>> THEN "exit" ELSE "speech")
    /\ UNCHANGED <<seg_vars, args, index, duration, speech_paths, video_paths,
                   durations, segments, calls>>

\* build_project_from_plans, the loop body: workflow.generate_speech
GenerateSpeech ==
    /\ pc = "speech"
    /\ \E result \in Outcomes :
         /\ calls' = Append(calls, Call("generate_speech", index, plans[index + 1].script, result))
         /\ pc' = AfterCall(result, "probe")
    /\ UNCHANGED <<seg_vars, args, plans, index, duration, speech_paths, video_paths,
                   durations, segments>>

ProbedDurations == {3, 8}

\* the loop body: AudioFileClip(speech_path).duration
ProbeDuration ==
    /\ pc = "probe"
    /\ \E result \in Outcomes, seconds \in ProbedDurations :
         /\ calls' = Append(calls, Call("AudioFileClip", index, SpeechFile(index), result))
         /\ duration' = IF result = "ok" THEN seconds ELSE duration
         /\ pc' = AfterCall(result, "footage")
    /\ UNCHANGED <<seg_vars, args, plans, index, speech_paths, video_paths,
                   durations, segments>>

\* the loop body: pexels_client.search_and_download, the three appends, and the
\* step to the next plan or out of the loop
SearchAndDownload ==
    /\ pc = "footage"
    /\ \E result \in {"ok", "none", "raised"} :
         LET query == FootageQuery(plans[index + 1])
             returned == result # "raised"
         IN  /\ calls' = Append(calls, Call("search_and_download", index, query, result))
             /\ speech_paths' = IF returned THEN Append(speech_paths, SpeechFile(index))
                                ELSE speech_paths
             /\ video_paths' = IF returned
                               THEN Append(video_paths, search_and_download(query, result))
                               ELSE video_paths
             /\ durations' = IF returned THEN Append(durations, duration) ELSE durations
             /\ index' = IF returned THEN index + 1 ELSE index
             /\ pc' = AfterCall(result, IF index + 1 < Len(plans) THEN "speech" ELSE "assemble")
    /\ UNCHANGED <<seg_vars, args, plans, duration, segments>>

\* create_project_segments(plans, speech_paths, video_paths, durations)
Assemble ==
    /\ pc = "assemble"
    /\ LET made == create_project_segments(plans, speech_paths, video_paths, durations)
           result == IF made.error # "" THEN "raised" ELSE "ok"
       IN  /\ segments' = made.segments
           /\ calls' = Append(calls, Call("create_project_segments", Len(plans), <<>>, result))
           /\ pc' = AfterCall(result, "save")
    /\ UNCHANGED <<seg_vars, args, plans, index, duration, speech_paths, video_paths,
                   durations>>

\* project.save(project_file)
Save ==
    /\ pc = "save"
    /\ \E result \in Outcomes :
         /\ calls' = Append(calls, Call("save", Len(plans), ProjectFile, result))
         /\ pc' = AfterCall(result, AfterSave)
    /\ UNCHANGED <<seg_vars, args, plans, index, duration, speech_paths, video_paths,
                   durations, segments>>

\* if render: render_project(project.segments, render_path)
Render ==
    /\ pc = "render"
    /\ \E result \in Outcomes :
         /\ calls' = Append(calls, Call("render_project", Len(plans), RenderFile, result))
         /\ pc' = AfterCall(result, AfterRender)
    /\ UNCHANGED <<seg_vars, args, plans, index, duration, speech_paths, video_paths,
                   durations, segments>>

\* if upload: upload_video(render_path, ...)
Upload ==
    /\ pc = "upload"
    /\ \E result \in Outcomes :
         /\ calls' = Append(calls, Call("upload_video", Len(plans), RenderFile, result))
         /\ pc' = AfterCall(result, "returned")
    /\ UNCHANGED <<seg_vars, args, plans, index, duration, speech_paths, video_paths,
                   durations, segments>>

\* the script files: empty, one chunk with keywords, a chunk with keywords and a
\* chunk without
ScriptFiles ==
    { <<>>,
      <<"c", "a", "t", " ", "d", "o", "g", ".">>,
      <<"c", "a", "t", " ", "d", "o", "g", ".", "\n", "\n", "\n", "T", "o", " ", "g", "o">> }

Init ==
    /\ args \in [urls : BOOLEAN, script_file : BOOLEAN, prompt : BOOLEAN,
                 render : BOOLEAN, upload : BOOLEAN]
    /\ script_text \in IF args.script_file THEN ScriptFiles ELSE {<<>>}
    /\ seg_pc = "idle"
    /\ seg_result = <<>>
    /\ pc = "start"
    /\ plans = <<>>
    /\ index = 0
    /\ duration = 0
    /\ speech_paths = <<>>
    /\ video_paths = <<>>
    /\ durations = <<>>
    /\ segments = <<>>
    /\ calls = <<>>

Next ==
    \/ ParseArgs
    \/ LoadConfig
    \/ PlanFromScript
    \/ PlanFromLLM
    \/ GenerateSpeech
    \/ ProbeDuration
    \/ SearchAndDownload
    \/ Assemble
    \/ Save
    \/ Render
    \/ Upload

Spec == Init /\ [][Next]_vars

(***************************************************************************)
(* The assembler applied to four lists of any lengths                      *)
(***************************************************************************)

MaxAsmLen == 2

ListsUpTo(S, n) == UNION {[1..k -> S] : k \in 0..n}

AsmPlans ==
    { SegmentPlan(<<"O", "n", "e">>, <<"O", "n", "e", ".">>, <<"O", "n", "e", ".">>, <<>>),
      SegmentPlan(<<"T", "w", "o">>, <<"T", "w", "o", ".">>, <<"T", "w", "o", ".">>,
                  <<<<"t", "w", "o">>>>) }

InitAsm ==
    /\ plans \in ListsUpTo(AsmPlans, MaxAsmLen)
    /\ speech_paths \in ListsUpTo({SpeechFile(0)}, MaxAsmLen)
    /\ video_paths \in ListsUpTo({NoPath, SomePath(VideoFile(<<"t", "w", "o">>))}, MaxAsmLen)
    /\ durations \in ListsUpTo({3}, MaxAsmLen)
    /\ pc = "asm_call"
    /\ segments = <<>>
    /\ args = [urls |-> FALSE, script_file |-> FALSE, prompt |-> FALSE,
               render |-> FALSE, upload |-> FALSE]
    /\ index = 0
    /\ duration = 0
    /\ calls = <<>>
    /\ script_text = <<>>
    /\ seg_pc = "idle"
    /\ seg_result = <<>>

\* one call of create_project_segments
AssembleCall ==
    /\ pc = "asm_call"
    /\ LET made == create_project_segments(plans, speech_paths, video_paths, durations)
       IN  /\ segments' = made.segments
           /\ pc' = IF made.error # "" THEN "asm_raised" ELSE "asm_returned"
    /\ UNCHANGED <<seg_vars, args, plans, index, duration, speech_paths, video_paths,
                   durations, calls>>

NextAsm == AssembleCall

AsmSpec == InitAsm /\ [][NextAsm]_vars

(***************************************************************************)
(* The segmenter applied to an input text                                  *)
(***************************************************************************)

MaxLen == 5

MaxTokens == 7

MaxWords == 5

MaxCount == 2

SegAlphabet == {"a", " ", "\n", ".", "!", "?"}

\* every text of at most MaxLen characters of SegAlphabet
CharTexts == UNION {[1..n -> SegAlphabet] : n \in 0..MaxLen}

TokenSet == {<<"a", "b">>, <<"c", ".">>}

Separators == {<<" ">>, <<" ", "\t">>, <<"\n">>}

\* nothing, or a first chunk made of punctuation only
Prefixes == {<<>>, <<".", " ", ".", " ", ".", "\n", "\n">>}

\* up to MaxTokens tokens joined by one of the separators, after one of the prefixes
WordTexts ==
    {pre \o Join(ws, sep) : pre \in Prefixes,
                            ws \in UNION {[1..n -> TokenSet] : n \in 1..MaxTokens},
                            sep \in Separators}

cat == <<"c", "a", "t">>
dog == <<"d", "o", "g">>
sun == <<"s", "u", "n">>
map == <<"m", "a", "p">>
pen == <<"p", "e", "n">>
box == <<"b", "o", "x">>
key == <<"k", "e", "y">>
hat == <<"h", "a", "t">>
video == <<"v", "i", "d", "e", "o">>

\* two keyword candidates, a stopword in capitals, a short token, a chunk boundary
SeqVocab == {cat, dog, <<"T", "h", "e">>, <<"t", "o">>, <<"\n", "\n">>}

\* every sequence of at most MaxWords items of SeqVocab, joined by spaces
KwSeqTexts ==
    {Join(ws, <<" ">>) : ws \in UNION {[1..n -> SeqVocab] : n \in 0..MaxWords}}

\* six keyword candidates and a stopword
CountVocab == <<cat, dog, sun, <<"a", "n", "d">>, map, pen, box>>

RECURSIVE Repeat(_, _)
Repeat(word, n) == IF n = 0 THEN <<>> ELSE <<word>> \o Repeat(word, n - 1)

RECURSIVE Blocks(_, _, _)
Blocks(count, order, k) ==
    IF k > Len(order) THEN <<>>
    ELSE Repeat(CountVocab[order[k]], count[order[k]]) \o Blocks(count, order, k + 1)

Forward == [k \in DOMAIN CountVocab |-> k]

Backward == [k \in DOMAIN CountVocab |-> Len(CountVocab) + 1 - k]

\* each word of CountVocab repeated 0..MaxCount times, the words in vocabulary
\* order or in the reverse order
KwCountTexts ==
    {Join(Blocks(count, order, 1), <<" ">>) :
        count \in [DOMAIN CountVocab -> 0..MaxCount], order \in {Forward, Backward}}

\* "video" five times, "cat" three times, seven other tokens once each
KeywordExample ==
    Join(<<video, cat, dog, video, sun, cat, video, map, pen, video, cat, box,
           key, video, hat>>, <<" ">>)

\* the pipeline's variables, unused by the segmenter alone
PipelineIdle ==
    /\ args = [urls |-> FALSE, script_file |-> FALSE, prompt |-> FALSE,
               render |-> FALSE, upload |-> FALSE]
    /\ pc = "idle"
    /\ plans = <<>>
    /\ index = 0
    /\ duration = 0
    /\ speech_paths = <<>>
    /\ video_paths = <<>>
    /\ durations = <<>>
    /\ segments = <<>>
    /\ calls = <<>>

InitSeg ==
    /\ script_text \in CharTexts \cup WordTexts
    /\ seg_pc = "call"
    /\ seg_result = <<>>
    /\ PipelineIdle

InitKw ==
    /\ script_text \in KwSeqTexts \cup KwCountTexts \cup {KeywordExample}
    /\ seg_pc = "call"
    /\ seg_result = <<>>
    /\ PipelineIdle

BuildPlans ==
    /\ seg_pc = "call"
    /\ seg_result' = build_plans_from_script(script_text)
    /\ seg_pc' = "done"
    /\ UNCHANGED <<script_text, pipe_vars>>

NextSeg == BuildPlans

SegSpec == InitSeg /\ [][NextSeg]_vars

KwSpec == InitKw /\ [][NextSeg]_vars

\* the control step of BuildPlans: the call returns
SegReturns == seg_pc = "call" /\ seg_pc' = "done"

\* the call is synchronous: once made, it runs to its return (BuildPlans is the
\* only step that changes seg_pc, so the fairness is stated on that variable)
FairSegSpec == SegSpec /\ WF_seg_pc(SegReturns)

(***************************************************************************)
(* Properties of the segmenter                                             *)
(***************************************************************************)

SegDone == seg_pc = "done"

\* the chunks of the input, in the order of the plans
InputChunks == ScriptChunks(script_text)

\* the positions of the characters of s that belong to the set cls
Positions(s, cls) == {i \in 1..Len(s) : s[i] \in cls}

\* C1: for every chunk holding one of '.', '!' and '?', the summary is the prefix
\* of the normalized chunk that ends at the delimiter of smallest index, whichever
\* of the three it is.
C1_SummaryEndsAtEarliestDelimiter ==
    SegDone =>
        \A i \in DOMAIN seg_result :
            LET normalized == _clean_sentence(InputChunks[i])
                hits == Positions(normalized, {".", "!", "?"})
            IN  hits # {} => seg_result[i].summary = SubSeq(normalized, 1, SetMin(hits))

\* position i of s lies in a run of at least n consecutive newline characters
InNewlineRun(s, i, n) ==
    \E a \in (i - n + 1)..i :
        a >= 1 /\ a + n - 1 <= Len(s) /\ \A j \in a..(a + n - 1) : s[j] = "\n"

\* the positions of s that separate blocks: those of the runs of at least n newlines
SeparatorPositions(s, n) == {j \in 1..Len(s) : InNewlineRun(s, j, n)}

\* the first non-blank position of every block of s that is not empty once
\* trimmed, the blocks being separated by runs of at least n newline characters
BlockStarts(s, n) ==
    LET seps == SeparatorPositions(s, n)
        text == Positions(s, Range(s) \ Whitespace)
    IN  {p \in text : \A q \in text : q < p => \E j \in seps : q < j /\ j < p}

\* the text of the block that starts at p, up to its last non-blank character
BlockText(s, p, n) ==
    LET seps == SeparatorPositions(s, n)
        text == Positions(s, Range(s) \ Whitespace)
    IN  SubSeq(s, p, SetMax({e \in text : e >= p /\ \A j \in seps : j < p \/ j > e}))

\* the k-th smallest element of a set of numbers
Nth(S, k) == CHOOSE x \in S : Cardinality({y \in S : y <= x}) = k

\* the plans are, in order, those of the blocks separated by runs of n newlines
PlansFollowBlocks(n) ==
    LET starts == BlockStarts(script_text, n)
    IN  /\ Len(seg_result) = Cardinality(starts)
        /\ \A k \in 1..Cardinality(starts) :
               k \in DOMAIN seg_result =>
                   seg_result[k].script
                       = _clean_sentence(BlockText(script_text, Nth(starts, k), n))

\* C2 as stated: the plans are those of the blocks separated by two or more
\* consecutive blank lines, that is by three or more newline characters.
C2_BlocksByTwoBlankLines == SegDone => PlansFollowBlocks(3)

\* C2 as amended: the number of plans equals the number of maximal text blocks
\* separated by runs of two or more consecutive newline characters (one or more
\* empty lines), after discarding the blocks that are empty once trimmed, and the
\* plans appear in the order of those blocks.
C2_BlocksByDoubleNewline == SegDone => PlansFollowBlocks(2)

C2_Witness ==
    /\ SegDone
    /\ Len(seg_result) = 2
    /\ Cardinality(BlockStarts(script_text, 3)) = 1
    /\ SeparatorPositions(script_text, 2) # {}

\* the first positions of the whitespace-separated tokens of s
TokenStarts(s) ==
    {p \in 1..Len(s) : s[p] \notin Whitespace /\ (p = 1 \/ s[p - 1] \in Whitespace)}

\* the token of s that starts at p
TokenAt(s, p) ==
    SubSeq(s, p, SetMax({e \in p..Len(s) : \A j \in p..e : s[j] \notin Whitespace}))

\* the first n whitespace-separated tokens of s joined by single spaces
FirstTokens(s, n) ==
    LET starts == TokenStarts(s)
        m == IF Cardinality(starts) < n THEN Cardinality(starts) ELSE n
    IN  Join([k \in 1..m |-> TokenAt(s, Nth(starts, k))], <<" ">>)

PunctuationOnly(chunk) == Range(chunk) \subseteq {".", "!", "?", " "}

\* C4 as stated: the title of the n-th plan is the first 6 tokens of its summary
\* joined by single spaces, and a chunk made only of punctuation such as ". . ."
\* gets the title "Segment n".
C4_TitleOrSegmentFallback ==
    SegDone =>
        \A n \in DOMAIN seg_result :
            /\ seg_result[n].title = FirstTokens(seg_result[n].summary, 6)
            /\ PunctuationOnly(InputChunks[n]) => seg_result[n].title = SegmentLabel(n)

\* C4 as amended: the title of the n-th plan is the first 6 tokens of its summary
\* joined by single spaces; the summary of a chunk is never empty, so the title
\* is never the fallback for want of tokens, and a chunk made only of
\* punctuation such as ". . ." gets the first tokens of its summary (".").
C4_TitleIsFirstSixTokens ==
    SegDone =>
        \A n \in DOMAIN seg_result :
            /\ seg_result[n].summary # <<>>
            /\ seg_result[n].title # <<>>
            /\ seg_result[n].title = FirstTokens(seg_result[n].summary, 6)
            /\ InputChunks[n] = <<".", " ", ".", " ", ".">> => seg_result[n].title = <<".">>

C4_Witness ==
    /\ SegDone
    /\ Len(seg_result) = 2
    /\ PunctuationOnly(InputChunks[1])
    /\ seg_result[1].title = <<".">>
    /\ Cardinality(TokenStarts(seg_result[2].summary)) > 6
    /\ Cardinality(TokenStarts(seg_result[2].title)) = 6

IsString(s) == DOMAIN s = 1..Len(s)

IsPlan(plan) ==
    /\ DOMAIN plan = {"title", "summary", "script", "keywords"}
    /\ IsString(plan.title) /\ IsString(plan.summary) /\ IsString(plan.script)
    /\ IsString(plan.keywords)
    /\ \A k \in DOMAIN plan.keywords : IsString(plan.keywords[k])

\* C8: build_plans_from_script is total: on every input the call returns, what it
\* returns is a sequence of plans, and on the empty string and on every input
\* made of whitespace only it is the empty sequence.
C8_Total ==
    /\ <>SegDone
    /\ [](SegDone =>
            /\ IsString(seg_result)
            /\ \A i \in DOMAIN seg_result : IsPlan(seg_result[i])
            /\ Range(script_text) \subseteq Whitespace => seg_result = <<>>)

C8_Witness ==
    /\ SegDone
    /\ Len(script_text) >= 2
    /\ Range(script_text) = {" ", "\n"}
    /\ seg_result = <<>>

(***************************************************************************)
(* Properties of the keywords                                              *)
(***************************************************************************)

Occurrences(seq, word) == {j \in DOMAIN seq : seq[j] = word}

\* word u ranks before word w among the candidates: more occurrences, or as many
\* and a first occurrence that comes earlier
RanksBefore(cands, u, w) ==
    \/ Cardinality(Occurrences(cands, u)) > Cardinality(Occurrences(cands, w))
    \/ /\ Cardinality(Occurrences(cands, u)) = Cardinality(Occurrences(cands, w))
       /\ SetMin(Occurrences(cands, u)) < SetMin(Occurrences(cands, w))

\* C5: the keywords of every chunk are pairwise distinct, at most 5, surviving
\* tokens in descending order of occurrence count with ties broken by first
\* appearance, and a surviving token is left out only if 5 tokens that rank
\* before it are returned.
C5_KeywordsRanked ==
    SegDone =>
        \A i \in DOMAIN seg_result :
            LET kws == seg_result[i].keywords
                cands == _keyword_candidates(InputChunks[i])
            IN  /\ Len(kws) <= 5
                /\ \A a \in DOMAIN kws : kws[a] \in Range(cands)
                /\ \A a, b \in DOMAIN kws : a < b => kws[a] # kws[b]
                /\ \A a, b \in DOMAIN kws : a < b => RanksBefore(cands, kws[a], kws[b])
                /\ \A w \in Range(cands) \ Range(kws) :
                       /\ Len(kws) = 5
                       /\ \A a \in DOMAIN kws : RanksBefore(cands, kws[a], w)

\* the spec's example: "video" (5 times) first, "cat" (3 times) second, then
\* three of the seven tokens that occur once, in the order they first appear
C5_Witness ==
    /\ SegDone
    /\ script_text = KeywordExample
    /\ Len(seg_result) = 1
    /\ seg_result[1].keywords = <<video, cat, dog, sun, map>>

\* the tokens of a chunk: the maximal runs of word characters of its lowercase form
ChunkTokens(chunk) == FindAllWords(Lower(chunk))

\* C6: no keyword of a plan has length 2 or less, none is a stopword, whatever
\* the frequency of such tokens in the chunk, and the keyword list is empty when
\* no token survives the filtering.
C6_NoShortNoStopword ==
    SegDone =>
        \A i \in DOMAIN seg_result :
            LET kws == seg_result[i].keywords
                tokens == ChunkTokens(InputChunks[i])
            IN  /\ \A a \in DOMAIN kws : Len(kws[a]) > 2 /\ kws[a] \notin _STOPWORDS
                /\ (\A t \in DOMAIN tokens : Len(tokens[t]) <= 2 \/ tokens[t] \in _STOPWORDS)
                       => kws = <<>>

\* a stopword and a short token each occur more often than the one keyword
C6_Witness ==
    /\ SegDone
    /\ Len(seg_result) = 1
    /\ LET tokens == ChunkTokens(InputChunks[1])
       IN  /\ Cardinality(Occurrences(tokens, <<"t", "h", "e">>)) = 2
           /\ Cardinality(Occurrences(tokens, <<"t", "o">>)) = 2
           /\ seg_result[1].keywords = <<cat>>

\* the whitespace-separated tokens of s, in order
Tokens(s) ==
    LET starts == TokenStarts(s)
    IN  [k \in 1..Cardinality(starts) |-> TokenAt(s, Nth(starts, k))]

\* s has no leading, trailing or doubled whitespace, and its only whitespace
\* character is the space
SingleSpaced(s) ==
    /\ Range(s) \cap Whitespace \subseteq {" "}
    /\ s # <<>> => s[1] \notin Whitespace /\ s[Len(s)] \notin Whitespace
    /\ \A i \in 1..(Len(s) - 1) : s[i] \notin Whitespace \/ s[i + 1] \notin Whitespace

\* C12: the script of every plan is its chunk's text with every run of
\* whitespace, embedded single newlines included, collapsed to exactly one space
\* and with no leading or trailing whitespace: it has the chunk's tokens, holds
\* no newline and no two adjacent whitespace characters, and is not empty.
C12_ScriptNormalized ==
    SegDone =>
        LET starts == BlockStarts(script_text, 2)
        IN  /\ Len(seg_result) = Cardinality(starts)
            /\ \A k \in DOMAIN seg_result :
                   LET chunk == BlockText(script_text, Nth(starts, k), 2)
                       script == seg_result[k].script
                   IN  /\ script # <<>>
                       /\ "\n" \notin Range(script)
                       /\ SingleSpaced(script)
                       /\ Tokens(script) = Tokens(chunk)
                       /\ script = Join(Tokens(chunk), <<" ">>)

\* a chunk with an embedded single newline and a run of two whitespace
\* characters, whose script is shorter than the chunk
C12_Witness ==
    /\ SegDone
    /\ Len(seg_result) = 1
    /\ LET chunk == BlockText(script_text, Nth(BlockStarts(script_text, 2), 1), 2)
       IN  /\ "\n" \in Range(chunk)
           /\ \E i \in 1..(Len(chunk) - 1) : chunk[i] \in Whitespace /\ chunk[i + 1] \in Whitespace
           /\ Len(seg_result[1].script) < Len(chunk)
           /\ Cardinality(TokenStarts(seg_result[1].script)) = 2

(***************************************************************************)
(* Properties of the assembler                                             *)
(***************************************************************************)

AsmReturned == pc = "asm_returned"

AsmRaised == pc = "asm_raised"

SameLengths ==
    /\ Len(speech_paths) = Len(plans)
    /\ Len(video_paths) = Len(plans)
    /\ Len(durations) = Len(plans)

\* C3: create_project_segments fails, returning no segment list, whenever the
\* four input sequences do not all have the same length, including when plans
\* is the shortest of them.
C3_FailsOnUnequalLengths == (AsmReturned \/ AsmRaised) /\ ~SameLengths => AsmRaised

(***************************************************************************)
(* Properties of the pipeline                                              *)
(***************************************************************************)

\* main has passed the plans to build_project_from_plans
InBuild ==
    \/ pc \in {"speech", "probe", "footage", "assemble", "save", "render", "upload",
               "returned"}
    \/ calls # <<>>

\* C7: every plan passed to build_project_from_plans, whether it comes from
\* build_plans_from_script or from the planner through SegmentPlan.from_dict,
\* has a non-empty script.
C7_ScriptNonEmpty == InBuild => \A i \in DOMAIN plans : plans[i].script # <<>>

LoopOps == <<"generate_speech", "AudioFileClip", "search_and_download">>

\* the calls are made plan after plan in input order, each plan's calls in the
\* order speech, probe, footage, each after the call before it has returned, and
\* the calls that follow the loop come after the last plan's footage call
CallsInOrder ==
    \A k \in DOMAIN calls :
        /\ k > 1 => calls[k - 1].result # "raised"
        /\ IF k <= 3 * Len(plans)
           THEN /\ calls[k].op = LoopOps[((k - 1) % 3) + 1]
                /\ calls[k].index = (k - 1) \div 3
           ELSE calls[k].op \notin Range(LoopOps)
        /\ calls[k].op = "generate_speech" => calls[k].arg = plans[calls[k].index + 1].script

\* the footage calls, each with the plan it is made for
FootageCalls == {k \in DOMAIN calls : calls[k].op = "search_and_download"}

PlanOf(k) == plans[calls[k].index + 1]

\* C9 as stated: the calls are made in the fixed order, and the footage query is
\* the plan's keywords joined by single spaces, or the plan's title exactly when
\* the plan has no keywords.
C9_QueryTitleIffNoKeywords ==
    /\ CallsInOrder
    /\ \A k \in FootageCalls :
           calls[k].arg = IF PlanOf(k).keywords = <<>> THEN PlanOf(k).title
                          ELSE Join(PlanOf(k).keywords, <<" ">>)

\* C9 as amended: the calls are made in the fixed order, and the footage query
\* is the plan's keywords joined by single spaces, or the plan's title exactly
\* when the plan has no keywords or its only keyword is the empty string.
C9_QueryTitleIffNothingToJoin ==
    /\ CallsInOrder
    /\ \A k \in FootageCalls :
           calls[k].arg = IF PlanOf(k).keywords \in {<<>>, <<<<>>>>} THEN PlanOf(k).title
                          ELSE Join(PlanOf(k).keywords, <<" ">>)

\* two plans handled: the first searched by its keywords, the second, whose only
\* keyword is empty, by its title
C9_Witness ==
    /\ Len(plans) = 2
    /\ Len(calls) = 6
    /\ plans[1].keywords = <<cat, dog>>
    /\ calls[3].arg = <<"c", "a", "t", " ", "d", "o", "g">>
    /\ plans[2].keywords = <<<<>>>>
    /\ calls[6].arg = plans[2].title

\* C10: once a step of the run fails, no step that comes after it is executed,
\* and the failed step is not made again.
C10_FailureEndsRun ==
    /\ \A k \in DOMAIN calls : calls[k].result = "raised" => k = Len(calls) /\ pc = "raised"
    /\ \A j, k \in DOMAIN calls :
           j < k => <<calls[j].op, calls[j].index>> # <<calls[k].op, calls[k].index>>

\* the probe of the second of two plans failed, with render and upload asked for
C10_Witness ==
    /\ pc = "raised"
    /\ args.render /\ args.upload
    /\ Len(plans) = 2
    /\ Len(calls) = 5
    /\ calls[5].op = "AudioFileClip"
    /\ calls[5].result = "raised"

\* main is at the planning branch, or past it in build_project_from_plans
Planning == pc = "plan" \/ InBuild

\* C11: URLs and --script-file exclude each other: no invocation that supplies
\* both proceeds to planning and project building.
C11_UrlsExcludeScriptFile == args.urls /\ args.script_file => ~Planning

\* the positions in the run of the calls of operation op
CallsOf(op) == {k \in DOMAIN calls : calls[k].op = op}

\* call k comes after a call of operation op that has returned
AfterReturned(k, op) == \E j \in CallsOf(op) : j < k /\ calls[j].result # "raised"

\* before call k, the speech, the duration and the footage result of every plan
\* have been collected
AllCollectedBefore(k) ==
    \A i \in 0..(Len(plans) - 1) :
        \A n \in DOMAIN LoopOps :
            \E j \in CallsOf(LoopOps[n]) :
                j < k /\ calls[j].index = i /\ calls[j].result # "raised"

\* C13: the project file is saved at most once, only after every plan has had
\* its speech, duration and footage result collected (the three collected lists
\* have the length of plans when create_project_segments is called), and before
\* any render or upload; when both render and upload are requested, the upload
\* starts only after the render has returned.
C13_SaveOnceBetweenCollectAndRender ==
    /\ Cardinality(CallsOf("save")) <= 1
    /\ pc = "assemble" => SameLengths
    /\ \A k \in CallsOf("create_project_segments") : SameLengths /\ AllCollectedBefore(k)
    /\ \A k \in CallsOf("save") :
           AllCollectedBefore(k) /\ AfterReturned(k, "create_project_segments")
    /\ \A k \in CallsOf("render_project") \cup CallsOf("upload_video") :
           AfterReturned(k, "save")
    /\ \A k \in CallsOf("upload_video") :
           args.render => AfterReturned(k, "render_project")

\* a run over two plans with render and upload requested that has saved,
\* rendered and uploaded
C13_Witness ==
    /\ pc = "returned"
    /\ args.render /\ args.upload
    /\ Len(plans) = 2
    /\ Len(calls) = 10
    /\ calls[8].op = "save"
    /\ calls[9].op = "render_project"
    /\ calls[10].op = "upload_video"

====
